---- MODULE Spec2Model ----
(***************************************************************************)
(* Model of umato/layouts.py: nn_layout_optimize (the epoch-driving loop),  *)
(* _nn_layout_optimize_single_epoch (the per-edge kernel) and              *)
(* optimize_global_layout (the dense refinement loop).  A behaviour is one *)
(* call of nn_layout_optimize or one call of optimize_global_layout.       *)
(*                                                                         *)
(* Number representation (floats of the source are fixed-point integers,   *)
(* every division truncating toward zero):                                 *)
(*   coordinates                 1 unit = 1/10000                          *)
(*   squared distances           exact sum of squared coordinate units     *)
(*   grad_d                      1 unit = 1/100                            *)
(*   grad_current/other/neg      1 unit = 1/1000                           *)
(*   alpha, negative_sample_rate exact rationals <<numerator, denominator>>*)
(*   epoch counters              1 unit = 1/4 epoch; "inf" and "nan" are    *)
(*                               the IEEE values a zero rate produces      *)
(***************************************************************************)
EXTENDS Integers, Sequences, FiniteSets, TLC

\* ------------------------------------------------------------------ bounds
MaxEpochs == 2
NumVertices == 3
NumEdges == 2
Dim == 1
MaxDraws == 1
MaxIter == 2

\* ------------------------------------------------- parameters and defaults
a == 1
b == 1
gamma == 1
initial_alpha == 1
CLIP_CUTOFF == 10

CoordUnit == 100 * 100
GradUnit == 10 * 10
DistUnit == 10 * 100
EpochUnit == 2 * 2

VARIABLES
    \* which function is called
    call,
    \* inputs of optimize_global_layout, its matrix Z and its locals
    P, max_iter, savefig, Z, iter, costs, figures,
    \* inputs of nn_layout_optimize
    n_epochs, negative_sample_rate, hub_info, head, tail, epochs_per_sample,
    verbose, parallel, tail_mode, layout,
    \* the two coordinate matrices
    head_embedding, tail_embedding,
    \* locals of nn_layout_optimize
    move_other, alpha, epochs_per_negative_sample,
    epoch_of_next_negative_sample, epoch_of_next_sample, n, plot_tmptmp,
    \* locals of _nn_layout_optimize_single_epoch
    todo, i, j, k, grad_d, n_neg_samples, p, branch,
    \* the shared random state (number of draws made, counted up to MaxDraws)
    rng_draws,
    \* control
    pc, outcome,
    \* record of the running epoch: the matrices and counters at its start,
    \* the order in which prange handed out the edges, and the accepted
    \* negative samples of each edge
    epoch_start, processed, samples

inputs == <<n_epochs, negative_sample_rate, hub_info, head, tail,
            epochs_per_sample, verbose, parallel, tail_mode, layout>>
kernel_locals == <<todo, i, j, k, grad_d, n_neg_samples, p, branch>>
counters == <<epochs_per_negative_sample, epoch_of_next_negative_sample,
              epoch_of_next_sample>>
epoch_record == <<epoch_start, processed, samples>>
global_state == <<P, max_iter, savefig, Z, iter, costs, figures>>
vars == <<call, global_state, inputs, head_embedding, tail_embedding,
          move_other, alpha, counters,
          n, plot_tmptmp, kernel_locals, rng_draws, pc, outcome, epoch_record>>

\* ------------------------------------------------------------- arithmetic
Abs(x) == IF x < 0 THEN -x ELSE x

Min(S) == CHOOSE x \in S : \A y \in S : x <= y

\* float division followed by a truncation toward zero
TruncDiv(x, y) == IF x >= 0 THEN x \div y ELSE -((-x) \div y)

RECURSIVE Pow(_, _)
Pow(x, m) == IF m = 0 THEN 1 ELSE x * Pow(x, m - 1)

RECURSIVE SumOver(_, _)
SumOver(f, S) ==
    IF S = {} THEN 0
    ELSE LET x == CHOOSE y \in S : TRUE IN f[x] + SumOver(f, S \ {x})

Dims == 0 .. (Dim - 1)
Edges == 0 .. (NumEdges - 1)

\* umato.utils.rdist: squared euclidean distance of two rows
rdist(x, y) == SumOver([d \in Dims |-> (x[d] - y[d]) * (x[d] - y[d])], Dims)

\* umato.utils.clip: val limited to [-cutoff, cutoff]
clip(val, cutoff) ==
    IF val > cutoff THEN cutoff
    ELSE IF val < -cutoff THEN -cutoff
    ELSE val

\* ------------------------------------------------------------------ inputs
HeadRows == NumVertices
TailRows(mode) == IF mode = "larger" THEN NumVertices + 1 ELSE NumVertices

InitCoord(lay, v, d) ==
    IF lay = "stack" THEN (v \div 2) * 100 + d * 100
    ELSE v * 4000 + d * 1000

InitHead(lay) ==
    [v \in 0 .. (HeadRows - 1) |-> [d \in Dims |-> InitCoord(lay, v, d)]]

\* a separate tail matrix holds other points than the head matrix
InitTail(lay, mode) ==
    IF mode = "same" THEN InitHead(lay)
    ELSE [v \in 0 .. (TailRows(mode) - 1) |->
            [d \in Dims |->
                InitCoord(lay, v, d) + (IF lay = "stack" THEN 100 ELSE 3000)]]

\* hub labels: none at all, or vertex 0 a primary and vertex 1 a secondary hub
HubPatterns == {"none", "mixed"}
HubInfo(pat, rows) ==
    [v \in 0 .. (rows - 1) |->
        IF pat = "none" THEN 0
        ELSE IF v = 0 THEN 1
        ELSE IF v = 1 THEN 2
        ELSE 0]

EdgePatterns == {"chain", "star", "self"}
EdgeHead(pat) ==
    [e \in Edges |-> IF pat = "star" THEN 0 ELSE e % HeadRows]
EdgeTail(pat, rows) ==
    [e \in Edges |-> IF pat = "self" THEN e % HeadRows ELSE (e + 1) % rows]

\* epochs_per_sample in quarter epochs: 1.0 everywhere, or 1.0, 1.5, 2.0, ...
EpsPatterns == {"ones", "mixed"}
EpochsPerSample(pat) ==
    [e \in Edges |-> IF pat = "ones" THEN EpochUnit
                     ELSE EpochUnit + 2 * (e % 3)]

\* negative_sample_rate: 0, 1/2, 2
Rates == {<<0, 1>>, <<1, 2>>, <<2, 1>>}

\* the similarity matrix P: the identity, or 1 between ring neighbours
PPatterns == {"identity", "ring"}
Similarity(pat) ==
    [x \in 0 .. (HeadRows - 1) |->
        [y \in 0 .. (HeadRows - 1) |->
            IF pat = "identity"
            THEN (IF x = y THEN 1 ELSE 0)
            ELSE IF x # y /\ (y = (x + 1) % HeadRows \/ x = (y + 1) % HeadRows)
                 THEN 1 ELSE 0]]

InitLocal ==
    /\ call = "nn_layout_optimize"
    /\ P = <<>>
    /\ max_iter = 0
    /\ savefig = FALSE
    /\ Z = <<>>
    /\ iter = 0
    /\ costs = 0
    /\ figures = 0
    /\ n_epochs \in 0 .. MaxEpochs
    /\ negative_sample_rate \in Rates
    /\ tail_mode \in {"same", "distinct", "larger"}
    /\ layout \in {"spread", "stack"}
    /\ \E pat \in HubPatterns : hub_info = HubInfo(pat, TailRows(tail_mode))
    /\ \E pat \in EdgePatterns :
          /\ head = EdgeHead(pat)
          /\ tail = EdgeTail(pat, TailRows(tail_mode))
    /\ \E pat \in EpsPatterns : epochs_per_sample = EpochsPerSample(pat)
    /\ verbose \in BOOLEAN
    /\ parallel \in BOOLEAN
    /\ head_embedding = InitHead(layout)
    /\ tail_embedding = InitTail(layout, tail_mode)
    /\ move_other = FALSE
    /\ alpha = <<0, 1>>
    /\ epochs_per_negative_sample = <<>>
    /\ epoch_of_next_negative_sample = <<>>
    /\ epoch_of_next_sample = <<>>
    /\ n = -1
    /\ plot_tmptmp = FALSE
    /\ todo = {}
    /\ i = -1
    /\ j = -1
    /\ k = -1
    /\ grad_d = [d \in Dims |-> 0]
    /\ n_neg_samples = 0
    /\ p = 0
    /\ branch = "none"
    /\ rng_draws = 0
    /\ pc = "entry"
    /\ outcome = "running"
    /\ epoch_start = [h |-> head_embedding, t |-> tail_embedding,
                      next |-> <<>>, neg |-> <<>>]
    /\ processed = <<>>
    /\ samples = [e \in Edges |-> <<>>]

\* a call of optimize_global_layout; the state of nn_layout_optimize is idle
InitGlobal ==
    /\ call = "optimize_global_layout"
    /\ \E pat \in PPatterns : P = Similarity(pat)
    /\ max_iter \in 0 .. MaxIter
    /\ savefig \in BOOLEAN
    /\ verbose \in BOOLEAN
    /\ layout \in {"spread", "stack"}
    /\ Z = InitHead(layout)
    /\ iter = 0
    /\ costs = 0
    /\ figures = 0
    /\ n_epochs = 0
    /\ negative_sample_rate = <<2, 1>>
    /\ tail_mode = "same"
    /\ hub_info = HubInfo("mixed", HeadRows)
    /\ head = EdgeHead("chain")
    /\ tail = EdgeTail("chain", HeadRows)
    /\ epochs_per_sample = EpochsPerSample("ones")
    /\ parallel = FALSE
    /\ head_embedding = InitHead(layout)
    /\ tail_embedding = InitHead(layout)
    /\ move_other = FALSE
    /\ alpha = <<0, 1>>
    /\ epochs_per_negative_sample = <<>>
    /\ epoch_of_next_negative_sample = <<>>
    /\ epoch_of_next_sample = <<>>
    /\ n = -1
    /\ plot_tmptmp = FALSE
    /\ todo = {}
    /\ i = -1
    /\ j = -1
    /\ k = -1
    /\ grad_d = [d \in Dims |-> 0]
    /\ n_neg_samples = 0
    /\ p = 0
    /\ branch = "none"
    /\ rng_draws = 0
    /\ pc = "global"
    /\ outcome = "running"
    /\ epoch_start = [h |-> head_embedding, t |-> tail_embedding,
                      next |-> <<>>, neg |-> <<>>]
    /\ processed = <<>>
    /\ samples = [e \in Edges |-> <<>>]

Init == InitLocal \/ InitGlobal

n_vertices == TailRows(tail_mode)
aliased == tail_mode = "same"

ZeroRate == negative_sample_rate[1] = 0

\* ------------------------------------------------------ the kernel's math
\* A gradient coefficient is a rational <<num, den>> scaled so that
\* num * (current[d] - other[d]) / den is the displacement in grad_d units:
\* the factor 10 below is DistUnit * GradUnit / CoordUnit.
SquaredDistance(D2) == D2 \div ((CoordUnit * CoordUnit) \div DistUnit)

\* lines 177-181
AttractCoeff(D2) ==
    IF D2 > 0
    THEN LET d3 == SquaredDistance(D2)
         IN  << -2 * a * b * Pow(d3, b - 1) * 10,
                a * Pow(d3, b) + Pow(DistUnit, b) >>
    ELSE <<0, 1>>

\* line 184
AttractGradD(coeff, cur, oth) ==
    clip(TruncDiv(coeff[1] * (cur - oth), coeff[2]), CLIP_CUTOFF * GradUnit)

\* lines 217-220
RepulseCoeff(D2) ==
    LET d3 == SquaredDistance(D2)
    IN  << 2 * gamma * b * Pow(DistUnit, b) * 10,
           (1 + d3) * (a * Pow(d3, b) + Pow(DistUnit, b)) >>

\* lines 227-230 with the clip of line 228 left out
RepulseGradD_Unclipped(coeff, cur, oth) ==
    IF coeff[1] > 0
    THEN TruncDiv(coeff[1] * (cur - oth), coeff[2])
    ELSE CLIP_CUTOFF * GradUnit

\* lines 227-230
RepulseGradD(coeff, cur, oth) ==
    IF coeff[1] > 0
    THEN clip(TruncDiv(coeff[1] * (cur - oth), coeff[2]),
              CLIP_CUTOFF * GradUnit)
    ELSE CLIP_CUTOFF * GradUnit

\* lines 186-194: 0.01 is 10 thousandths, 0.001 is 1
GradCurrent(label) == IF label = 1 \/ label = 2 THEN 10 ELSE 0
GradOther(label) == IF label = 1 THEN 10 ELSE IF label = 2 THEN 1 ELSE 0
GradNeg == 1

\* grad_d * alpha * factor, in coordinate units (the 10 is
\* GradUnit * 1000 / CoordUnit)
Disp(g, al, factor) == TruncDiv(g * factor * al[1], 10 * al[2])

\* lines 169-199: the attractive step of one firing edge
Attract(H, T, jj, kk, al, mo) ==
    LET current == H[jj]
        other == T[kk]
        coeff == AttractCoeff(rdist(current, other))
        g == [d \in Dims |-> AttractGradD(coeff, current[d], other[d])]
        H1 == [H EXCEPT ![jj] =
                 [d \in Dims |->
                    current[d] + Disp(g[d], al, GradCurrent(hub_info[kk]))]]
        T1 == IF aliased THEN H1 ELSE T
        T2 == IF mo
              THEN [T1 EXCEPT ![kk] =
                      [d \in Dims |->
                         T1[kk][d] - Disp(g[d], al, GradOther(hub_info[kk]))]]
              ELSE T1
    IN  [h |-> IF aliased THEN T2 ELSE H1, t |-> T2, g |-> g]

\* lines 213-224 without the elif of line 221
RepulseBranch_NoSkip(H, T, jj, kk) ==
    IF rdist(H[jj], T[kk]) > 0 THEN "repulse" ELSE "flat"

\* lines 213-224: which way one accepted negative sample goes
RepulseBranch(H, T, jj, kk) ==
    IF rdist(H[jj], T[kk]) > 0 THEN "repulse"
    ELSE IF jj = kk THEN "skip"
    ELSE "flat"

\* lines 213-232 with line 232 moving the sampled row instead of the head row
Repulse_MovingOther(H, T, jj, kk, al, g0) ==
    LET current == H[jj]
        other == T[kk]
        way == RepulseBranch(H, T, jj, kk)
        coeff == IF way = "repulse" THEN RepulseCoeff(rdist(current, other))
                 ELSE <<0, 1>>
        g == [d \in Dims |-> RepulseGradD(coeff, current[d], other[d])]
        T1 == [T EXCEPT ![kk] =
                 [d \in Dims |-> other[d] + Disp(g[d], al, GradNeg)]]
    IN  IF way = "skip"
        THEN [h |-> H, t |-> T, g |-> g0, way |-> way]
        ELSE [h |-> IF aliased THEN T1 ELSE H, t |-> T1, g |-> g, way |-> way]

\* lines 213-232: one accepted negative sample kk against head row jj
Repulse(H, T, jj, kk, al, g0) ==
    LET current == H[jj]
        other == T[kk]
        way == RepulseBranch(H, T, jj, kk)
        coeff == IF way = "repulse" THEN RepulseCoeff(rdist(current, other))
                 ELSE <<0, 1>>
        g == [d \in Dims |-> RepulseGradD(coeff, current[d], other[d])]
        H1 == [H EXCEPT ![jj] =
                 [d \in Dims |-> current[d] + Disp(g[d], al, GradNeg)]]
    IN  IF way = "skip"
        THEN [h |-> H, t |-> T, g |-> g0, way |-> way]
        ELSE [h |-> H1, t |-> IF aliased THEN H1 ELSE T, g |-> g, way |-> way]

\* ---------------------------------------------------------------- counters
\* line 103
EpochsPerNegativeSample(eps, rate) ==
    IF rate[1] = 0 THEN "inf" ELSE (eps * rate[2]) \div rate[1]

\* int() of a NaN: the most negative integer on x86-64, 0 on AArch64
NaNCast == {0 - 2147483647, 0}

\* lines 203-205 with a floor in place of int()
NNegSamples_Floor(nn, next, per) ==
    IF ZeroRate THEN NaNCast
    ELSE {(nn * EpochUnit - next) \div per}

\* lines 203-205
NNegSamples(nn, next, per) ==
    IF ZeroRate THEN NaNCast
    ELSE {TruncDiv(nn * EpochUnit - next, per)}

\* lines 234-236
NextNegative(next, per, m) == IF ZeroRate THEN "nan" ELSE next + m * per

\* line 132
AlphaAfter(nn) == <<initial_alpha * (n_epochs - nn), n_epochs>>

\* line 168 with the comparison turned round
Fires_Reversed(next, nn) == next >= nn * EpochUnit

\* line 168
Fires(next, nn) == next <= nn * EpochUnit

\* line 100 with the flag always set
MoveOther_Always == TRUE

\* line 100
MoveOther == HeadRows = TailRows(tail_mode)

\* line 210 with the test turned round
HubEligible_Unlabelled(v) == hub_info[v] = 0

\* line 210: the draw that leaves the rejection loop
HubEligible(v) == hub_info[v] > 0

\* ----------------------------------------------------------------- actions
\* lines 99-109
Setup ==
    /\ UNCHANGED <<call, global_state>>
    /\ pc = "entry"
    /\ move_other' = MoveOther
    /\ alpha' = <<initial_alpha, 1>>
    /\ epochs_per_negative_sample' =
          [e \in Edges |->
             EpochsPerNegativeSample(epochs_per_sample[e],
                                     negative_sample_rate)]
    /\ epoch_of_next_negative_sample' = epochs_per_negative_sample'
    /\ epoch_of_next_sample' = epochs_per_sample
    /\ pc' = "loop"
    /\ UNCHANGED <<inputs, head_embedding, tail_embedding, n, plot_tmptmp,
                   kernel_locals, rng_draws, outcome, epoch_record>>

\* line 110: the next value of range(n_epochs), then the call of line 111
LoopHead ==
    /\ UNCHANGED <<call, global_state>>
    /\ pc = "loop"
    /\ IF n + 1 < n_epochs
       THEN /\ n' = n + 1
            /\ todo' = Edges
            /\ pc' = "kernel"
            /\ epoch_start' = [h |-> head_embedding, t |-> tail_embedding,
                               next |-> epoch_of_next_sample,
                               neg |-> epoch_of_next_negative_sample]
            /\ processed' = <<>>
            /\ samples' = [e \in Edges |-> <<>>]
       ELSE /\ pc' = "final"
            /\ UNCHANGED <<n, todo, epoch_record>>
    /\ UNCHANGED <<inputs, head_embedding, tail_embedding, move_other, alpha,
                   counters, plot_tmptmp, i, j, k, grad_d, n_neg_samples, p,
                   branch, rng_draws, outcome>>

\* lines 167-206 for edge e (and 234-236 when it draws no negative sample);
\* prange hands the edges out in index order unless parallel is set
KernelEdge(e) ==
    /\ UNCHANGED <<call, global_state>>
    /\ pc = "kernel"
    /\ e \in todo
    /\ parallel \/ e = Min(todo)
    /\ i' = e
    /\ processed' = Append(processed, e)
    /\ IF Fires(epoch_of_next_sample[e], n)
       THEN LET r == Attract(head_embedding, tail_embedding, head[e], tail[e],
                             alpha, move_other)
            IN  /\ j' = head[e]
                /\ k' = tail[e]
                /\ head_embedding' = r.h
                /\ tail_embedding' = r.t
                /\ grad_d' = r.g
                /\ branch' = "attract"
                /\ epoch_of_next_sample' =
                      [epoch_of_next_sample EXCEPT
                          ![e] = @ + epochs_per_sample[e]]
                /\ \E m \in NNegSamples(n, epoch_of_next_negative_sample[e],
                                        epochs_per_negative_sample[e]) :
                      /\ n_neg_samples' = m
                      /\ p' = 0
                      /\ IF m > 0
                         THEN /\ pc' = "neg"
                              /\ UNCHANGED <<todo,
                                             epoch_of_next_negative_sample>>
                         ELSE /\ pc' = "kernel"
                              /\ todo' = todo \ {e}
                              /\ epoch_of_next_negative_sample' =
                                   [epoch_of_next_negative_sample EXCEPT
                                      ![e] = NextNegative(@,
                                         epochs_per_negative_sample[e], m)]
       ELSE /\ todo' = todo \ {e}
            /\ UNCHANGED <<head_embedding, tail_embedding, j, k, grad_d,
                           n_neg_samples, p, branch, pc,
                           epoch_of_next_sample,
                           epoch_of_next_negative_sample>>
    /\ UNCHANGED <<inputs, move_other, alpha, epochs_per_negative_sample, n,
                   plot_tmptmp, rng_draws, outcome, epoch_start, samples>>

\* lines 207-236: one draw of the rejection loop; an accepted draw is
\* followed by its repulsive update, the last one by the counter update
Draw(v) ==
    /\ UNCHANGED <<call, global_state>>
    /\ pc = "neg"
    /\ k' = v
    /\ rng_draws' = IF rng_draws < MaxDraws THEN rng_draws + 1 ELSE rng_draws
    /\ IF HubEligible(v)
       THEN LET r == Repulse(head_embedding, tail_embedding, j, v, alpha,
                             grad_d)
            IN  /\ head_embedding' = r.h
                /\ tail_embedding' = r.t
                /\ grad_d' = r.g
                /\ branch' = r.way
                /\ samples' = [samples EXCEPT ![i] = Append(@, v)]
                /\ p' = p + 1
                /\ IF p + 1 = n_neg_samples
                   THEN /\ epoch_of_next_negative_sample' =
                             [epoch_of_next_negative_sample EXCEPT
                                ![i] = NextNegative(@,
                                   epochs_per_negative_sample[i],
                                   n_neg_samples)]
                        /\ todo' = todo \ {i}
                        /\ pc' = "kernel"
                   ELSE UNCHANGED <<epoch_of_next_negative_sample, todo, pc>>
       ELSE UNCHANGED <<head_embedding, tail_embedding, grad_d, branch,
                        samples, p, epoch_of_next_negative_sample, todo, pc>>
    /\ UNCHANGED <<inputs, move_other, alpha, epochs_per_negative_sample,
                   epoch_of_next_sample, n, plot_tmptmp, i, j, n_neg_samples,
                   outcome, epoch_start, processed>>

\* lines 132-141, after the kernel returned
EpochEnd ==
    /\ UNCHANGED <<call, global_state>>
    /\ pc = "kernel"
    /\ todo = {}
    /\ alpha' = AlphaAfter(n)
    /\ plot_tmptmp' = (plot_tmptmp \/ (verbose /\ n % 10 = 0))
    /\ pc' = "loop"
    /\ UNCHANGED <<inputs, head_embedding, tail_embedding, move_other,
                   counters, n, kernel_locals, rng_draws, outcome,
                   epoch_record>>

\* lines 143-144: the name plot_tmptmp is a local of the function, bound
\* only by the import of line 135
FinalPlot ==
    /\ UNCHANGED <<call, global_state>>
    /\ pc = "final"
    /\ outcome' = IF plot_tmptmp THEN "returned" ELSE "UnboundLocalError"
    /\ pc' = "done"
    /\ UNCHANGED <<inputs, head_embedding, tail_embedding, move_other, alpha,
                   counters, n, plot_tmptmp, kernel_locals, rng_draws,
                   epoch_record>>

\* ------------------------------------------------ optimize_global_layout
Rows == 0 .. (HeadRows - 1)

\* line 46: squared pairwise distances (umato.utils.adjacency_matrix, squared)
\* in distance units
PairD3(M, x, y) == SquaredDistance(rdist(M[x], M[y]))

\* lines 51-52: 1 / (0.001 + d_squared) with a zero diagonal, in 1/100
Q0(M, x, y) == IF x = y THEN 0 ELSE (100 * DistUnit) \div (1 + PairD3(M, x, y))

\* line 53: the product (1 - P) Q
Q1(M, x, y) ==
    SumOver([z \in Rows |-> (1 - P[x][z]) * Q0(M, z, y)], Rows)

\* line 54: rows normalised to sum 1, in distance units
QNorm(M, x, y) ==
    (Q1(M, x, y) * DistUnit) \div SumOver([z \in Rows |-> Q1(M, x, z)], Rows)

\* lines 57-59: 2ab P (1e-12 + d_squared)^(b-1) - 2b Q, in distance units
GlobalGrad(M, x, y) ==
    2 * a * b * P[x][y] * Pow(PairD3(M, x, y), b - 1)
        * Pow(DistUnit, 2 - b)
    - 2 * b * QNorm(M, x, y)

\* lines 47-48, 60: the sum over y of grad * z_diff * d_inverse
GlobalDZ(M, x, d) ==
    SumOver([y \in Rows |->
                TruncDiv(GlobalGrad(M, x, y) * (M[x][d] - M[y][d])
                           * Pow(DistUnit, b - 1),
                         a * Pow(PairD3(M, x, y), b) + Pow(DistUnit, b))],
            Rows)

\* line 61 with alpha = 0.01 (line 35)
GlobalStep(M) ==
    [x \in Rows |-> [d \in Dims |-> M[x][d] - TruncDiv(GlobalDZ(M, x, d), 100)]]

\* lines 44-74: one iteration
GlobalIter ==
    /\ pc = "global"
    /\ iter < max_iter
    /\ Z' = GlobalStep(Z)
    /\ costs' = IF verbose THEN costs + 1 ELSE costs
    /\ figures' = IF savefig /\ iter % 4 = 1 THEN figures + 1 ELSE figures
    /\ iter' = iter + 1
    /\ UNCHANGED <<call, P, max_iter, savefig, inputs, head_embedding,
                   tail_embedding, move_other, alpha, counters, n,
                   plot_tmptmp, kernel_locals, rng_draws, pc, outcome,
                   epoch_record>>

\* line 76
GlobalReturn ==
    /\ pc = "global"
    /\ iter = max_iter
    /\ pc' = "done"
    /\ outcome' = "returned"
    /\ UNCHANGED <<call, global_state, inputs, head_embedding,
                   tail_embedding, move_other, alpha, counters, n,
                   plot_tmptmp, kernel_locals, rng_draws, epoch_record>>

Next ==
    \/ GlobalIter
    \/ GlobalReturn
    \/ Setup
    \/ LoopHead
    \/ \E e \in Edges : KernelEdge(e)
    \/ \E v \in 0 .. (n_vertices - 1) : Draw(v)
    \/ EpochEnd
    \/ FinalPlot

Spec == Init /\ [][Next]_vars

\* calls of nn_layout_optimize with the default parallel=False of line 94,
\* on one layout of the points: the coordinates decide no branch of lines
\* 110-211
InitTermination ==
    /\ InitLocal
    /\ layout = "spread"
    /\ parallel = FALSE

NextLocal ==
    \/ Setup
    \/ LoopHead
    \/ \E e \in Edges : KernelEdge(e)
    \/ \E v \in 0 .. (n_vertices - 1) : Draw(v)
    \/ EpochEnd
    \/ FinalPlot

\* the interpreter keeps executing the statement it stands at, and in a
\* rejection loop that is never left tau_rand_int keeps producing every
\* residue modulo n_vertices
Vertices == 0 .. NumVertices
Fairness ==
    /\ WF_vars(Setup \/ LoopHead \/ (\E e \in Edges : KernelEdge(e))
                  \/ EpochEnd \/ FinalPlot)
    /\ \A v \in Vertices :
          \/ []<>(pc # "neg" \/ v >= n_vertices)
          \/ []<><<Draw(v)>>_vars

FairSpec == InitTermination /\ [][NextLocal]_vars /\ Fairness

TypeOK ==
    /\ pc \in {"entry", "loop", "kernel", "neg", "final", "global", "done"}
    /\ outcome \in {"running", "returned", "UnboundLocalError"}
    /\ n \in -1 .. MaxEpochs
    /\ rng_draws \in 0 .. MaxDraws
    /\ iter \in 0 .. MaxIter

\* ------------------------------------------------------------------ claims
NoHub == \A v \in DOMAIN hub_info : hub_info[v] = 0

\* the inputs the contract calls valid: a hub-eligible vertex exists and the
\* negative sample rate is positive (epochs_per_sample is positive throughout)
ValidInputs == ~NoHub /\ ~ZeroRate

\* rational equality of two <<numerator, denominator>> pairs
RatEq(x, y) == x[1] * y[2] = y[1] * x[2]

\* C1: a call of nn_layout_optimize with n_epochs = 0, and a call of
\* optimize_global_layout with max_iter = 0, returns, and returns the input
\* coordinates unchanged, without raising an error.
C1_ZeroEpochsReturnsInput ==
    /\ (call = "nn_layout_optimize" /\ n_epochs = 0 /\ ValidInputs
            /\ pc = "done") =>
          /\ outcome = "returned"
          /\ head_embedding = InitHead(layout)
          /\ tail_embedding = InitTail(layout, tail_mode)
    /\ (call = "optimize_global_layout" /\ max_iter = 0 /\ pc = "done") =>
          /\ outcome = "returned"
          /\ Z = InitHead(layout)

\* C2: for n_epochs = N >= 1 and either value of verbose the kernel has run
\* for n = 0 .. N-1 and the call then returns head_embedding normally; the
\* plotting step after the loop never prevents the return.
C2_ReturnsAfterNEpochs ==
    (n_epochs >= 1 /\ ValidInputs /\ pc = "done") =>
        /\ outcome = "returned"
        /\ n = n_epochs - 1

\* C3: the learning rate handed to the kernel for epoch n is
\* initial_alpha * (1 - n / n_epochs).
C3_AlphaOfEpoch ==
    (ValidInputs /\ pc \in {"kernel", "neg"}) =>
        RatEq(alpha, <<initial_alpha * (n_epochs - n), n_epochs>>)

\* C4: with no vertex of hub label > 0 the optimizer fails fast at entry, so
\* that no RNG draw is made and the run never stands in the rejection loop of
\* the negative sampling, which no draw can leave.
C4_NoHubFailsFast ==
    NoHub =>
        /\ pc # "neg"
        /\ rng_draws = 0

\* the step in which edge i' fires (lines 168-206)
FireStep ==
    /\ pc = "kernel"
    /\ processed' # processed
    /\ Fires(epoch_of_next_sample[i'], n)

\* edge e has fired in the running epoch
Fired(e) ==
    /\ pc \in {"kernel", "neg"}
    /\ \E x \in DOMAIN processed : processed[x] = e
    /\ Fires(epoch_start.next[e], n)

\* C5: the per-dimension displacement grad_d of every attractive and every
\* repulsive update has absolute value at most 10 before it is scaled, and is
\* the flat value 10 in the repulsive update at squared distance 0.
C5_ClippedDisplacement ==
    \A d \in Dims :
        /\ Abs(grad_d[d]) <= CLIP_CUTOFF * GradUnit
        /\ branch = "flat" => grad_d[d] = CLIP_CUTOFF * GradUnit

\* a repulsive update whose displacement was cut down to the cutoff
C5_Witness ==
    /\ branch = "repulse"
    /\ \E d \in Dims : Abs(grad_d[d]) = CLIP_CUTOFF * GradUnit

\* the repulsive update at squared distance 0 against another vertex
C5_FlatReached == branch = "flat" /\ j # k

\* C6: with a positive negative sample rate, n_neg_samples is never negative
\* and no step lowers epoch_of_next_sample[e] or
\* epoch_of_next_negative_sample[e] of any edge e.
C6_MonotonicCounters ==
    /\ [](~ZeroRate => n_neg_samples >= 0)
    /\ [][(~ZeroRate /\ call = "nn_layout_optimize" /\ pc # "entry") =>
            \A e \in Edges :
                /\ epoch_of_next_sample'[e] >= epoch_of_next_sample[e]
                /\ epoch_of_next_negative_sample'[e] >=
                       epoch_of_next_negative_sample[e]]_vars

\* an edge has fired while its negative counter was still ahead of n, so the
\* quotient of line 204 was negative before int() cut it to 0
C6_Witness ==
    /\ ~ZeroRate
    /\ pc = "kernel"
    /\ i \in Edges
    /\ Fired(i)
    /\ branch = "attract"
    /\ n_neg_samples = 0
    /\ n * EpochUnit < epoch_of_next_negative_sample[i]

\* C7: with move_other set, the step in which an edge fires applies the
\* attractive displacement to both endpoints, head_embedding[head[i]] and
\* tail_embedding[tail[i]]; when the two matrices differ in row count no
\* entry of tail_embedding ever changes.
C7_SymmetryHandling ==
    /\ [](HeadRows # TailRows(tail_mode) =>
            tail_embedding = InitTail(layout, tail_mode))
    /\ [][(FireStep /\ move_other) =>
            \A d \in Dims :
                LET gc == Disp(grad_d'[d], alpha, GradCurrent(hub_info[k']))
                    go == Disp(grad_d'[d], alpha, GradOther(hub_info[k']))
                IN  IF aliased /\ j' = k'
                    THEN head_embedding'[j'][d] =
                            head_embedding[j'][d] + gc - go
                    ELSE /\ head_embedding'[j'][d] =
                               head_embedding[j'][d] + gc
                         /\ tail_embedding'[k'][d] =
                               tail_embedding[k'][d] - go]_vars

\* an edge has fired with move_other set and both its endpoints have moved
C7_Witness ==
    /\ move_other
    /\ branch = "attract"
    /\ i \in Edges
    /\ Fired(i)
    /\ j # k
    /\ head_embedding[j] # epoch_start.h[j]
    /\ tail_embedding[k] # epoch_start.t[k]

\* C8 as claimed: in a run with n_epochs = 1 and negative_sample_rate = 0 the
\* call completes without error, no repulsive displacement is applied, no RNG
\* draw is made, and every edge has fired exactly once: its
\* epoch_of_next_sample is the initial value plus epochs_per_sample.
C8_EveryEdgeFiresOnce ==
    (n_epochs = 1 /\ ZeroRate /\ ~NoHub /\ pc = "done") =>
        /\ outcome = "returned"
        /\ rng_draws = 0
        /\ branch \notin {"repulse", "flat", "skip"}
        /\ \A e \in Edges :
              epoch_of_next_sample[e] =
                  epochs_per_sample[e] + epochs_per_sample[e]

\* C8 as amended: in a run with n_epochs = 1 and negative_sample_rate = 0 no
\* edge fires in the single epoch n = 0: no displacement of either kind is
\* applied, no RNG draw is made, every epoch_of_next_sample still has its
\* initial value epochs_per_sample, and the call returns normally exactly
\* when verbose is set.
C8_NoEdgeFiresInEpochZero ==
    (n_epochs = 1 /\ ZeroRate /\ pc \in {"final", "done"}) =>
        /\ rng_draws = 0
        /\ branch = "none"
        /\ head_embedding = InitHead(layout)
        /\ tail_embedding = InitTail(layout, tail_mode)
        /\ \A e \in Edges : epoch_of_next_sample[e] = epochs_per_sample[e]
        /\ pc = "done" => (outcome = "returned") = verbose

\* the one-epoch run without repulsion has ended, after the kernel went
\* through every edge for n = 0
C8_Witness ==
    /\ n_epochs = 1
    /\ ZeroRate
    /\ ~NoHub
    /\ pc = "done"
    /\ n = 0
    /\ Len(processed) = NumEdges

\* the kernel call of the running epoch has gone through every edge
EpochComplete == pc = "kernel" /\ todo = {}

\* the accepted negative samples ks[x], ks[x+1], ... of one edge, in turn
RECURSIVE RepulseAll(_, _, _, _, _)
RepulseAll(H, T, jj, ks, x) ==
    IF x > Len(ks) THEN [h |-> H, t |-> T]
    ELSE LET r == Repulse(H, T, jj, ks[x], alpha, grad_d)
         IN  RepulseAll(r.h, r.t, jj, ks, x + 1)

\* lines 167-236 for the edges e, e+1, ... in index order, each edge with the
\* negative samples it was given in the running epoch
RECURSIVE InIndexOrder(_, _)
InIndexOrder(st, e) ==
    IF e = NumEdges THEN st
    ELSE IF Fires(st.next[e], n)
    THEN LET r == Attract(st.h, st.t, head[e], tail[e], alpha, move_other)
             q == RepulseAll(r.h, r.t, head[e], samples[e], 1)
             m == CHOOSE x \in NNegSamples(n, st.neg[e],
                                           epochs_per_negative_sample[e]) :
                      TRUE
         IN  InIndexOrder(
                 [h |-> q.h, t |-> q.t,
                  next |-> [st.next EXCEPT ![e] = @ + epochs_per_sample[e]],
                  neg |-> [st.neg EXCEPT
                             ![e] = NextNegative(@,
                                      epochs_per_negative_sample[e], m)]],
                 e + 1)
    ELSE InIndexOrder(st, e + 1)

SameAsIndexOrder ==
    LET ref == InIndexOrder(epoch_start, 0)
    IN  /\ head_embedding = ref.h
        /\ tail_embedding = ref.t
        /\ epoch_of_next_sample = ref.next
        /\ epoch_of_next_negative_sample = ref.neg

\* the rows of the coordinate matrices a firing edge writes and reads
Row(matrix, r) == IF aliased THEN <<"head", r>> ELSE <<matrix, r>>
Writes(e) ==
    {Row("head", head[e])} \cup
    (IF move_other THEN {Row("tail", tail[e])} ELSE {})
Reads(e) ==
    {Row("head", head[e]), Row("tail", tail[e])} \cup
    {Row("tail", samples[e][x]) : x \in DOMAIN samples[e]}
FiringEdges == {e \in Edges : Fires(epoch_start.next[e], n)}
Independent ==
    \A e1, e2 \in FiringEdges :
        e1 # e2 => Writes(e1) \cap (Reads(e2) \cup Writes(e2)) = {}

\* C9 as claimed: the firing edges of an epoch, each with the same draws,
\* give the same head_embedding, tail_embedding and counters at the end of
\* the epoch in whatever order they are processed as in index order.
C9_OrderIndependent == EpochComplete => SameAsIndexOrder

\* C9 as amended: the same holds when no firing edge writes a row that
\* another firing edge reads or writes.
C9_OrderIndependentOnDisjointRows ==
    (EpochComplete /\ Independent) => SameAsIndexOrder

\* two firing edges on disjoint rows were processed against the index order
\* and moved a point
C9_Witness ==
    /\ EpochComplete
    /\ Independent
    /\ Cardinality(FiringEdges) >= 2
    /\ \E x, y \in DOMAIN processed :
          /\ x < y
          /\ processed[x] > processed[y]
          /\ {processed[x], processed[y]} \subseteq FiringEdges
    /\ head_embedding # epoch_start.h

\* the step of an accepted negative-sample draw (lines 209-232)
AcceptedDraw == pc = "neg" /\ p' = p + 1

\* C10 as claimed: an accepted draw whose vertex k is the head vertex j of the
\* edge changes no coordinate, whether or not the two matrices are the same.
C10_SelfSampleSkipped ==
    [][(AcceptedDraw /\ k' = j) =>
          UNCHANGED <<head_embedding, tail_embedding>>]_vars

\* C10 as amended: such a draw changes no coordinate when the squared
\* distance of head_embedding[j] and tail_embedding[k] is 0, as it always is
\* when the two matrices are the same.
C10_SelfSampleSkippedAtZeroDistance ==
    [][(/\ AcceptedDraw
        /\ k' = j
        /\ aliased \/ rdist(head_embedding[j], tail_embedding[k']) = 0) =>
          UNCHANGED <<head_embedding, tail_embedding>>]_vars

\* a draw of the head vertex itself has been skipped
C10_Witness == branch = "skip" /\ k = j /\ p > 0

\* C11: when some vertex of 0 .. n_vertices-1 has a hub label > 0 and every
\* vertex index keeps being drawn, the rejection loops of an edge's
\* n_neg_samples negative samples are all left, each epoch's kernel call
\* comes back, and the call of nn_layout_optimize stops after exactly
\* n_epochs epochs; every vertex accepted as a negative sample has a hub
\* label > 0.
C11_Termination ==
    /\ (~NoHub /\ pc = "neg") ~> (pc = "kernel" /\ p = n_neg_samples)
    /\ (~NoHub /\ pc = "kernel") ~> (pc = "loop")
    /\ (~NoHub /\ call = "nn_layout_optimize")
          ~> (pc = "done" /\ n = n_epochs - 1)
    /\ [](\A e \in DOMAIN samples :
            \A x \in DOMAIN samples[e] : hub_info[samples[e][x]] > 0)

\* a call that stopped after a last epoch in which a negative sample was
\* accepted
C11_Witness ==
    /\ ~NoHub
    /\ pc = "done"
    /\ n_epochs = MaxEpochs
    /\ n = n_epochs - 1
    /\ \E e \in DOMAIN samples : Len(samples[e]) > 0

====
